---- MODULE Spec2Model ----
(***************************************************************************)
(* A model of sg::scope_guard (src/scope_guard.hpp) and of the C++ scope   *)
(* machinery that drives it in src/catch_tests.cpp: block scopes, try      *)
(* blocks, functions returning a value, stack unwinding.                   *)
(*                                                                         *)
(* The guard itself is three pure operators (the two constructors and the  *)
(* destructor's test); the actions are the statements of a client program  *)
(* that declares guards, relocates them and leaves scopes.                 *)
(***************************************************************************)
EXTENDS Naturals, Sequences, FiniteSets

\* ------------------------------------------------------------------ bounds

\* guard objects a run may declare
MaxGuards == 3
\* depth of scope nesting
MaxDepth == 2

Guards == 1..MaxGuards
\* 123 is the value the test passes to returning(); 7 is a second one
RetVals == {7, 123}

VARIABLES
  guards,   \* [Guards -> [life, m_callback, m_active]]: the guard objects
  stack,    \* the open scopes, outermost first: [kind, guards (declaration order)]
  count,    \* [Counters -> Nat]: the counters the callables increment
  mode,     \* what control is doing
  given,    \* the operand of the return statement being executed (0: none)
  result,   \* the function's result object (0: none)
  hist,     \* history of each guard: [src, made, armed, movedOut, outer]
            \*   src: the guard it was move-constructed from (0: the factory)
            \*   made: the callable its lineage's factory call was handed
            \*   armed: whether it was handed an armed callback at birth
            \*   movedOut: whether it has been the source of a relocation
            \*   outer: the guards alive in its own and enclosing scopes at birth
  log,      \* the callback invocations so far, in order: [g, cb, root]
  finalized,\* the guards destroyed by the scope exit in progress
  object,   \* a callable object of the caller's, handed to the factory as an
            \* lvalue: [life, target, depth]
            \*   target: the callable it currently wraps
            \*   depth: the scope it is declared in (0: not declared)
  race      \* two threads at work on one guard, without synchronisation:
            \* [pc, seen, interleaved]
            \*   pc: where each thread stands
            \*   seen: the value of m_active each thread's destructor call read
            \*   interleaved: whether a thread has begun an operation on the
            \*     guard while the other was in the middle of one

vars == <<guards, stack, count, mode, given, result, hist, log, finalized,
          object, race>>

\* ------------------------------------------------------------- the callables

\* The callables handed to make_scope_guard:
\*   "lambda"  a closure such as  [&]{ inc(); incc(lambda_count); }
\*   "functor" an object of a class type whose destructor is declared
\*             noexcept(false), calling  inc(); incc(functor_count);
\* inc() increments the global count.  An invocation of either may return
\* or throw: the noexcept callables of the tests are the runs in which no
\* invocation throws.
Callbacks == {"lambda", "functor"}
Counters == {"count", "lambda_count", "functor_count"}

\* the counters an invocation of cb increments
Touches(cb) ==
  IF cb = "lambda" THEN {"count", "lambda_count"} ELSE {"count", "functor_count"}

\* the counters after n invocations of cb
Invoke(cb, n, cnt) ==
  [c \in Counters |-> IF c \in Touches(cb) THEN cnt[c] + n ELSE cnt[c]]

\* Function references, function pointers, closures and std::function have
\* non-throwing destructors; the functor's is declared noexcept(false).
ThrowingDtor(cb) == cb = "functor"

\* ---------------------------------------------------------------- the guard

\* scope_guard(Callback&& callback): stores the callback, sets m_active.
scope_guard(callback) == [m_callback |-> callback, m_active |-> TRUE]

\* Faulty variants of the move constructor and of the destructor, against
\* which the properties below are tried: the source's flag left set, the
\* source's flag inverted, the destination always armed, the destructor's
\* test inverted.
MoveKeepsSourceActive(other) ==
  [new   |-> [m_callback |-> other.m_callback, m_active |-> other.m_active],
   other |-> other]

MoveTogglesSource(other) ==
  [new   |-> [m_callback |-> other.m_callback, m_active |-> other.m_active],
   other |-> [other EXCEPT !.m_active = ~other.m_active]]

MoveAlwaysArms(other) ==
  [new   |-> [m_callback |-> other.m_callback, m_active |-> TRUE],
   other |-> [other EXCEPT !.m_active = FALSE]]

\* scope_guard(scope_guard&& other): the new guard takes other's callback and
\* other's flag, then other's flag is cleared.  The moved-from m_callback is
\* left as it is: it is never invoked again through a cleared flag.
scope_guard_move(other) ==
  [new   |-> [m_callback |-> other.m_callback, m_active |-> other.m_active],
   other |-> [other EXCEPT !.m_active = FALSE]]

DtorInverted(g) == ~g.m_active

\* ~scope_guard(): if(m_active) m_callback();
DtorInvokes(g) == g.m_active

\* ~scope_guard() is declared without an exception specification, so it is
\* noexcept unless a member's destructor is potentially throwing.
DtorNoexcept(cb) == ~ThrowingDtor(cb)

\* A prvalue guard moved n times into its final place (the moves a compiler
\* does not elide): each temporary is moved from and then destroyed.
\* calls counts the callback invocations made by the temporaries' destructors.
RECURSIVE Relocate(_, _)
Relocate(g, n) ==
  IF n = 0 THEN [guard |-> g, calls |-> 0]
  ELSE LET m == scope_guard_move(g)
           r == Relocate(m.new, n - 1)
       IN  [guard |-> r.guard,
            calls |-> r.calls + (IF DtorInvokes(m.other) THEN 1 ELSE 0)]

\* make_scope_guard(resetter): return scope_guard<Callback>{resetter};
\* elideReturn, elideInit: whether the move of the returned prvalue into the
\* return object, and of that into the declared variable, is elided.
make_scope_guard(resetter, elideReturn, elideInit) ==
  Relocate(scope_guard(resetter),
           (IF elideReturn THEN 0 ELSE 1) + (IF elideInit THEN 0 ELSE 1))

\* ------------------------------------------------------------------ helpers

Last(s) == s[Len(s)]
Front(s) == SubSeq(s, 1, Len(s) - 1)
Range(s) == {s[i] : i \in 1..Len(s)}

Top == stack[Len(stack)]

\* the guards declared in the scopes 1..i and not destroyed yet
OnStack(i) == UNION {Range(stack[j].guards) : j \in 1..i}

Unborn == {g \in Guards : guards[g].life = "unborn"}
NextId == CHOOSE g \in Unborn : \A h \in Unborn : g <= h

\* the innermost scope of the given kind (0: none)
Innermost(kind) ==
  LET S == {i \in 1..Len(stack) : stack[i].kind = kind}
  IN  IF S = {} THEN 0 ELSE CHOOSE i \in S : \A j \in S : j <= i

\* the factory-made guard a guard's callback descends from
RECURSIVE Root(_)
Root(g) == IF hist[g].src = 0 THEN g ELSE Root(hist[g].src)

\* n invocations of cb made by temporaries of the lineage root
TempCalls(n, cb, root) == [i \in 1..n |-> [g |-> 0, cb |-> cb, root |-> root]]

\* where an exception goes once raised: to the enclosing try block; with no
\* handler std::terminate is called, after unwinding the stack or without
\* (implementation-defined).
Raise == IF Innermost("try") # 0 THEN {"unwinding"} ELSE {"unwinding", "terminated"}

Fresh ==
  [src |-> 0, made |-> "none", armed |-> FALSE, movedOut |-> FALSE, outer |-> {}]

\* make_scope_guard(Callback&& resetter) deduces Callback = F& for an lvalue
\* of type F, and the member  Callback m_callback  is then a reference bound
\* to the caller's object: the guard's m_callback is the handle "ref".
\* What a call through m_callback reaches: the callable the guard stores, or
\* the caller's object as it is at the call; a call through a reference to
\* an object that is gone is undefined, and may run anything.
Referent(m_callback) ==
  IF m_callback # "ref" THEN {m_callback}
  ELSE IF object.life = "live" THEN {object.target}
       ELSE Callbacks

\* the call goes through a dangling reference
Dangling(m_callback) == m_callback = "ref" /\ object.life # "live"

NoObject == [life |-> "undeclared", target |-> "none", depth |-> 0]

Threads == {1, 2}

\* no thread but the main one
NoRace ==
  [pc |-> [t \in Threads |-> "off"], seen |-> [t \in Threads |-> FALSE],
   interleaved |-> FALSE]

\* --------------------------------------------------------------------- Init

Init ==
  /\ guards = [g \in Guards |->
                 [life |-> "unborn", m_callback |-> "none", m_active |-> FALSE]]
  /\ stack = << >>
  /\ count = [c \in Counters |-> 0]
  /\ mode = "running"
  /\ given = 0
  /\ result = 0
  /\ hist = [g \in Guards |-> Fresh]
  /\ log = << >>
  /\ finalized = {}
  /\ object = NoObject
  /\ race = NoRace

\* ------------------------------------------------------------------ actions

\* "{", "try {", or a call of a function such as returning(); the
\* outermost scope is a function body
EnterScope(kind) ==
  /\ mode = "running"
  /\ Len(stack) < MaxDepth
  /\ Len(stack) = 0 => kind = "function"
  /\ stack' = Append(stack, [kind |-> kind, guards |-> << >>])
  /\ UNCHANGED <<guards, count, mode, given, result, hist, log, finalized, object, race>>

\* auto guard = make_scope_guard(cb);
Make(cb, elideReturn, elideInit) ==
  /\ mode = "running"
  /\ Len(stack) > 0
  /\ Unborn # {}
  /\ LET g == NextId
         r == make_scope_guard(cb, elideReturn, elideInit)
     IN  /\ guards' = [guards EXCEPT ![g] =
                         [life |-> "live", m_callback |-> r.guard.m_callback,
                          m_active |-> r.guard.m_active]]
         /\ stack' = [stack EXCEPT ![Len(stack)].guards = Append(@, g)]
         /\ count' = Invoke(cb, r.calls, count)
         /\ log' = log \o TempCalls(r.calls, cb, g)
         /\ hist' = [hist EXCEPT ![g] =
                       [Fresh EXCEPT !.made = cb, !.armed = TRUE,
                                     !.outer = OnStack(Len(stack))]]
  /\ UNCHANGED <<mode, given, result, finalized, object, race>>

\* scope_guard<CB> dest{std::move(source)};
Move(s) ==
  /\ mode = "running"
  /\ Len(stack) > 0
  /\ Unborn # {}
  /\ s \in OnStack(Len(stack))
  /\ LET d == NextId
         m == scope_guard_move([m_callback |-> guards[s].m_callback,
                                m_active |-> guards[s].m_active])
     IN  /\ guards' = [guards EXCEPT
                         ![s].m_active = m.other.m_active,
                         ![d] = [life |-> "live", m_callback |-> m.new.m_callback,
                                 m_active |-> m.new.m_active]]
         /\ stack' = [stack EXCEPT ![Len(stack)].guards = Append(@, d)]
         /\ hist' = [hist EXCEPT
                       ![s].movedOut = TRUE,
                       ![d] = [Fresh EXCEPT
                                 !.src = s,
                                 !.made = hist[s].made,
                                 !.armed = hist[s].armed /\ ~hist[s].movedOut,
                                 !.outer = OnStack(Len(stack))]]
  /\ UNCHANGED <<count, mode, given, result, log, finalized, object, race>>

\* control reaches the "}" of a block or of a try block
BeginExit ==
  /\ mode = "running"
  /\ Len(stack) > 0
  /\ Top.kind # "function"
  /\ mode' = "exiting"
  /\ UNCHANGED <<guards, stack, count, given, result, hist, log, finalized, object, race>>

\* throw "foo";
Throw ==
  /\ mode = "running"
  /\ Len(stack) > 0
  /\ mode' \in Raise
  /\ UNCHANGED <<guards, stack, count, given, result, hist, log, finalized, object, race>>

\* return ret;  the result object is initialised before the locals die
Return(ret) ==
  /\ mode = "running"
  /\ Innermost("function") # 0
  /\ given' = ret
  /\ result' = ret
  /\ mode' = "returning"
  /\ UNCHANGED <<guards, stack, count, hist, log, finalized, object, race>>

\* return std::move(local);  a function hands a local guard to its caller:
\* the caller's guard is move-constructed from it before the locals die.
ReturnGuard(s, elideInit) ==
  /\ mode = "running"
  /\ Innermost("function") >= 2
  /\ Unborn # {}
  /\ s \in OnStack(Len(stack)) \ OnStack(Innermost("function") - 1)
  /\ LET f == Innermost("function")
         d == NextId
         m == scope_guard_move([m_callback |-> guards[s].m_callback,
                                m_active |-> guards[s].m_active])
         r == Relocate(m.new, IF elideInit THEN 0 ELSE 1)
     IN  /\ guards' = [guards EXCEPT
                         ![s].m_active = m.other.m_active,
                         ![d] = [life |-> "live", m_callback |-> r.guard.m_callback,
                                 m_active |-> r.guard.m_active]]
         /\ stack' = [stack EXCEPT ![f - 1].guards = Append(@, d)]
         /\ count' = Invoke(guards[s].m_callback, r.calls, count)
         /\ log' = log \o TempCalls(r.calls, guards[s].m_callback, Root(s))
         /\ hist' = [hist EXCEPT
                       ![s].movedOut = TRUE,
                       ![d] = [Fresh EXCEPT
                                 !.src = s,
                                 !.made = hist[s].made,
                                 !.armed = hist[s].armed /\ ~hist[s].movedOut,
                                 !.outer = OnStack(f - 1)]]
  /\ mode' = "returning"
  /\ UNCHANGED <<given, result, finalized, object, race>>

\* the destructor of the last-declared guard of the scope being left
Destroy ==
  /\ mode \in {"exiting", "unwinding", "returning"}
  /\ Len(stack) > 0
  /\ Top.guards # << >>
  /\ LET g == Last(Top.guards)
         m_callback == guards[g].m_callback
         invokes == DtorInvokes([m_callback |-> m_callback,
                                 m_active |-> guards[g].m_active])
     IN  /\ guards' = [guards EXCEPT ![g].life = "destroyed"]
         /\ stack' = [stack EXCEPT ![Len(stack)].guards = Front(@)]
         /\ hist' = hist
         /\ finalized' = finalized \cup {g}
         /\ \E cb \in (IF invokes THEN Referent(m_callback) ELSE {m_callback}) :
              /\ count' = IF invokes THEN Invoke(cb, 1, count) ELSE count
              /\ log' = IF invokes
                        THEN Append(log, [g |-> g, cb |-> cb, root |-> Root(g)])
                        ELSE log
         /\ \E throws \in (IF invokes THEN BOOLEAN ELSE {FALSE}) :
              /\ mode' \in (IF ~throws
                            THEN (IF invokes /\ Dangling(m_callback)
                                  THEN {mode, "terminated"} ELSE {mode})
                            ELSE IF DtorNoexcept(m_callback) \/ mode = "unwinding"
                                 THEN {"terminated"}
                                 ELSE Raise)
              /\ given' = (IF throws THEN 0 ELSE given)
              /\ result' = (IF throws THEN 0 ELSE result)
  /\ UNCHANGED <<object, race>>

\* the scope being left has no guards left: it is gone, and with it the
\* caller's callable object if it was declared there (before any guard that
\* refers to it)
PopScope ==
  /\ mode \in {"exiting", "unwinding", "returning"}
  /\ Len(stack) > 0
  /\ Top.guards = << >>
  /\ stack' = Front(stack)
  /\ mode' = (IF mode = "exiting" THEN "running"
              ELSE IF mode = "returning"
                   THEN (IF Top.kind = "function" THEN "returned" ELSE "returning")
                   ELSE IF Top.kind = "try" THEN "handler"
                        ELSE IF Len(stack) = 1 THEN "terminated" ELSE "unwinding")
  /\ finalized' = (IF mode = "exiting" THEN {} ELSE finalized)
  /\ object' = (IF object.life = "live" /\ object.depth = Len(stack)
                THEN [object EXCEPT !.life = "destroyed"]
                ELSE object)
  /\ UNCHANGED <<guards, count, given, result, hist, log, race>>

\* catch(...) { ... }
Catch ==
  /\ mode = "handler"
  /\ mode' = "running"
  /\ finalized' = {}
  /\ UNCHANGED <<guards, stack, count, given, result, hist, log, object, race>>

\* the caller uses the value of the call expression
Observe ==
  /\ mode = "returned"
  /\ mode' = "running"
  /\ given' = 0
  /\ result' = 0
  /\ finalized' = {}
  /\ UNCHANGED <<guards, stack, count, hist, log, object, race>>

Next ==
  \/ \E kind \in {"block", "try", "function"} : EnterScope(kind)
  \/ \E cb \in Callbacks, elideReturn, elideInit \in BOOLEAN :
       Make(cb, elideReturn, elideInit)
  \/ \E s \in Guards : Move(s)
  \/ BeginExit
  \/ Throw
  \/ \E ret \in RetVals : Return(ret)
  \/ \E s \in Guards, elideInit \in BOOLEAN : ReturnGuard(s, elideInit)
  \/ Destroy
  \/ PopScope
  \/ Catch
  \/ Observe

Spec == Init /\ [][Next]_vars

\* ------------------------------------- a callable handed over as an lvalue

\* std::function<void()> stdf{cb};  a callable object of the caller's
DeclareObject(cb) ==
  /\ mode = "running"
  /\ Len(stack) > 0
  /\ object.life = "undeclared"
  /\ object' = [life |-> "live", target |-> cb, depth |-> Len(stack)]
  /\ UNCHANGED <<guards, stack, count, mode, given, result, hist, log, finalized, race>>

\* auto guard = make_scope_guard(stdf);  Callback is deduced as a reference
\* type and the guard's m_callback is bound to stdf
MakeLvalue(elideReturn, elideInit) ==
  /\ mode = "running"
  /\ Len(stack) > 0
  /\ Unborn # {}
  /\ object.life = "live"
  /\ LET g == NextId
         r == make_scope_guard("ref", elideReturn, elideInit)
     IN  /\ guards' = [guards EXCEPT ![g] =
                         [life |-> "live", m_callback |-> r.guard.m_callback,
                          m_active |-> r.guard.m_active]]
         /\ stack' = [stack EXCEPT ![Len(stack)].guards = Append(@, g)]
         /\ count' = Invoke(object.target, r.calls, count)
         /\ log' = log \o TempCalls(r.calls, object.target, g)
         /\ hist' = [hist EXCEPT ![g] =
                       [Fresh EXCEPT !.made = object.target, !.armed = TRUE,
                                     !.outer = OnStack(Len(stack))]]
  /\ UNCHANGED <<mode, given, result, finalized, object, race>>

\* stdf = cb;  the caller gives its object another target
Assign(cb) ==
  /\ mode = "running"
  /\ object.life = "live"
  /\ cb # object.target
  /\ object' = [object EXCEPT !.target = cb]
  /\ UNCHANGED <<guards, stack, count, mode, given, result, hist, log, finalized, race>>

NextLvalue ==
  \/ Next
  \/ \E cb \in Callbacks : DeclareObject(cb)
  \/ \E elideReturn, elideInit \in BOOLEAN : MakeLvalue(elideReturn, elideInit)
  \/ \E cb \in Callbacks : Assign(cb)

\* the client program with a callable object of its own
SpecLvalue == Init /\ [][NextLvalue]_vars

\* ------------------------------------------- two threads and one guard

\* Thread t either move-constructs its own guard from the shared guard 1 and
\* later destroys its own guard, or runs the shared guard's destructor.  The
\* header reads and writes m_active as a plain bool: each read and each
\* write is a step of its own, and the steps of the two threads interleave
\* freely.
Shared == 1
Dest(t) == Shared + t

\* thread t is between the first and the last access of an operation on the
\* shared guard
Midway(t) == race.pc[t] \in {"clear", "call"}

\* guard 1 as make_scope_guard(cb) has just left it in the main thread, and
\* what each thread is about to do; at most one thread runs the destructor
RaceInit ==
  /\ \E cb \in Callbacks :
       /\ guards = [g \in Guards |->
                      IF g = Shared
                      THEN [life |-> "live",
                            m_callback |-> make_scope_guard(cb, TRUE, TRUE).guard.m_callback,
                            m_active |-> make_scope_guard(cb, TRUE, TRUE).guard.m_active]
                      ELSE [life |-> "unborn", m_callback |-> "none",
                            m_active |-> FALSE]]
       /\ hist = [g \in Guards |->
                    IF g = Shared THEN [Fresh EXCEPT !.made = cb, !.armed = TRUE]
                    ELSE Fresh]
  /\ stack = <<[kind |-> "function", guards |-> <<Shared>>]>>
  /\ count = [c \in Counters |-> 0]
  /\ mode = "running"
  /\ given = 0
  /\ result = 0
  /\ log = << >>
  /\ finalized = {}
  /\ object = NoObject
  /\ \E pc \in [Threads -> {"move", "finalize"}] :
       /\ Cardinality({t \in Threads : pc[t] = "finalize"}) <= 1
       /\ race = [NoRace EXCEPT !.pc = pc]

\* scope_guard(scope_guard&& other), the member initialisers:
\* m_callback{other.m_callback}, m_active{other.m_active}
MoveRead(t) ==
  /\ mode = "running"
  /\ race.pc[t] = "move"
  /\ guards[Shared].life = "live"
  /\ LET d == Dest(t)
         m == scope_guard_move([m_callback |-> guards[Shared].m_callback,
                                m_active |-> guards[Shared].m_active])
     IN  /\ guards' = [guards EXCEPT
                         ![d] = [life |-> "live", m_callback |-> m.new.m_callback,
                                 m_active |-> m.new.m_active]]
         /\ hist' = [hist EXCEPT
                       ![Shared].movedOut = TRUE,
                       ![d] = [Fresh EXCEPT
                                 !.src = Shared,
                                 !.made = hist[Shared].made,
                                 !.armed = guards[Shared].m_active]]
  /\ race' = [race EXCEPT
                !.pc[t] = "clear",
                !.interleaved = @ \/ \E u \in Threads \ {t} : Midway(u)]
  /\ UNCHANGED <<stack, count, mode, given, result, log, finalized, object>>

\* scope_guard(scope_guard&& other), the body: other.m_active = false;
MoveClear(t) ==
  /\ mode = "running"
  /\ race.pc[t] = "clear"
  /\ LET m == scope_guard_move([m_callback |-> guards[Shared].m_callback,
                                m_active |-> guards[Shared].m_active])
     IN  guards' = [guards EXCEPT ![Shared].m_active = m.other.m_active]
  /\ race' = [race EXCEPT !.pc[t] = "destroy"]
  /\ UNCHANGED <<stack, count, mode, given, result, hist, log, finalized, object>>

\* thread t's own guard goes out of scope: no other thread touches it
DestDestroy(t) ==
  /\ mode = "running"
  /\ race.pc[t] = "destroy"
  /\ LET d == Dest(t)
         cb == guards[d].m_callback
         invokes == DtorInvokes([m_callback |-> cb, m_active |-> guards[d].m_active])
     IN  /\ guards' = [guards EXCEPT ![d].life = "destroyed"]
         /\ count' = IF invokes THEN Invoke(cb, 1, count) ELSE count
         /\ log' = IF invokes
                   THEN Append(log, [g |-> d, cb |-> cb, root |-> Root(d)])
                   ELSE log
         /\ \E throws \in (IF invokes THEN BOOLEAN ELSE {FALSE}) :
              mode' = IF throws THEN "terminated" ELSE mode
  /\ race' = [race EXCEPT !.pc[t] = "done"]
  /\ UNCHANGED <<stack, given, result, hist, finalized, object>>

\* ~scope_guard() of the shared guard, the test: if(m_active)
FinalizeCheck(t) ==
  /\ mode = "running"
  /\ race.pc[t] = "finalize"
  /\ guards[Shared].life = "live"
  /\ race' = [race EXCEPT
                !.pc[t] = "call",
                !.seen[t] = DtorInvokes([m_callback |-> guards[Shared].m_callback,
                                         m_active |-> guards[Shared].m_active]),
                !.interleaved = @ \/ \E u \in Threads \ {t} : Midway(u)]
  /\ UNCHANGED <<guards, stack, count, mode, given, result, hist, log,
                 finalized, object>>

\* ~scope_guard() of the shared guard, the call: m_callback();
FinalizeCall(t) ==
  /\ mode = "running"
  /\ race.pc[t] = "call"
  /\ LET cb == guards[Shared].m_callback
         invokes == race.seen[t]
     IN  /\ guards' = [guards EXCEPT ![Shared].life = "destroyed"]
         /\ count' = IF invokes THEN Invoke(cb, 1, count) ELSE count
         /\ log' = IF invokes
                   THEN Append(log, [g |-> Shared, cb |-> cb, root |-> Shared])
                   ELSE log
         /\ \E throws \in (IF invokes THEN BOOLEAN ELSE {FALSE}) :
              mode' = IF throws THEN "terminated" ELSE mode
  /\ race' = [race EXCEPT !.pc[t] = "done"]
  /\ stack' = [stack EXCEPT ![Len(stack)].guards = << >>]
  /\ UNCHANGED <<given, result, hist, finalized, object>>

\* both threads are joined and the shared guard is still there: its scope
\* ends in the main thread
Join ==
  /\ mode = "running"
  /\ \A t \in Threads : race.pc[t] = "done"
  /\ guards[Shared].life = "live"
  /\ LET cb == guards[Shared].m_callback
         invokes == DtorInvokes([m_callback |-> cb,
                                 m_active |-> guards[Shared].m_active])
     IN  /\ guards' = [guards EXCEPT ![Shared].life = "destroyed"]
         /\ count' = IF invokes THEN Invoke(cb, 1, count) ELSE count
         /\ log' = IF invokes
                   THEN Append(log, [g |-> Shared, cb |-> cb, root |-> Shared])
                   ELSE log
         /\ \E throws \in (IF invokes THEN BOOLEAN ELSE {FALSE}) :
              mode' = IF throws THEN "terminated" ELSE mode
  /\ stack' = [stack EXCEPT ![Len(stack)].guards = << >>]
  /\ UNCHANGED <<given, result, hist, finalized, object, race>>

RaceNext ==
  \/ \E t \in Threads : MoveRead(t)
  \/ \E t \in Threads : MoveClear(t)
  \/ \E t \in Threads : DestDestroy(t)
  \/ \E t \in Threads : FinalizeCheck(t)
  \/ \E t \in Threads : FinalizeCall(t)
  \/ Join

\* two threads sharing a guard
SpecRace == RaceInit /\ [][RaceNext]_vars

\* ------------------------------------------------- reading the history

Born(g) == guards[g].life # "unborn"
Live(g) == guards[g].life = "live"
Destroyed(g) == guards[g].life = "destroyed"

\* how often the destructor of guard g has invoked its callback
Fired(g) == Cardinality({i \in DOMAIN log : log[i].g = g})

\* how often the callback handed to the factory call that made guard r has
\* been invoked, by any guard or temporary that ever held it
LineageCalls(r) == Cardinality({i \in DOMAIN log : log[i].root = r})

\* where in the log guard g's invocation stands
Pos(g) == CHOOSE i \in DOMAIN log : log[i].g = g

\* made by the factory and never the source of a relocation
NeverRelocated(g) == Born(g) /\ hist[g].src = 0 /\ ~hist[g].movedOut

\* the guard holds the armed callback: it was handed one and has not given
\* it away
Holder(g) == Born(g) /\ hist[g].armed /\ ~hist[g].movedOut

\* the guards whose callable increments counter c
Touching(c) == {g \in Guards : Born(g) /\ c \in Touches(guards[g].m_callback)}

\* ------------------------------------------------------------------- claims

\* C1: a guard built by make_scope_guard and never relocated has invoked its
\* callable zero times at construction and while its scope is open (no
\* temporary of the factory call has invoked it either), and exactly once
\* once it has been destroyed; a counter only that guard's callable has
\* ever been set to increment reads 0 until then and 1 afterwards.
C1_OnceAtScopeEnd ==
  \A g \in Guards : NeverRelocated(g) =>
    /\ Live(g) => LineageCalls(g) = 0
    /\ Destroyed(g) => Fired(g) = 1 /\ LineageCalls(g) = 1
    /\ \A c \in Touches(guards[g].m_callback) :
         Touching(c) = {g} => count[c] = (IF Live(g) THEN 0 ELSE 1)

C1_Witness ==
  \E g \in Guards :
    /\ NeverRelocated(g) /\ Destroyed(g) /\ Fired(g) = 1
    /\ count["functor_count"] = 1 /\ Touching("functor_count") = {g}

\* C2 as stated: whenever g1 has been relocated into g2, g1's destruction
\* invokes nothing and g2's destruction invokes the callback exactly once.
C2_Original ==
  \A g2 \in Guards : (Born(g2) /\ hist[g2].src # 0) =>
    /\ Fired(hist[g2].src) = 0
    /\ Destroyed(g2) => Fired(g2) = 1

\* C2 (amended): whenever an armed guard g1 has been relocated into g2 and g2
\* has not been relocated further, g1 invokes nothing, before or after its
\* scope ends, and g2 invokes the callback exactly once, at its own
\* destruction, whichever of the two is destroyed first.
C2_RelocatedFiresOnce ==
  \A g2 \in Guards : (Born(g2) /\ hist[g2].src # 0 /\ Holder(g2)) =>
    /\ Fired(hist[g2].src) = 0
    /\ Live(g2) => LineageCalls(Root(g2)) = 0
    /\ Destroyed(g2) => Fired(g2) = 1 /\ LineageCalls(Root(g2)) = 1

\* the source's scope has ended first, the destination's later
C2_Witness ==
  \E g2 \in Guards :
    /\ Born(g2) /\ hist[g2].src # 0 /\ Holder(g2)
    /\ Destroyed(g2) /\ Destroyed(hist[g2].src)
    /\ Fired(g2) = 1 /\ Fired(hist[g2].src) = 0
    /\ hist[g2].src \notin hist[g2].outer

\* C3: the callable handed to one factory call is invoked at most once in
\* all, counting every guard and temporary that ever held it.
C3_AtMostOncePerCallback ==
  \A r \in Guards : LineageCalls(r) <= 1

\* three guards have held the callable, all are gone, it ran once
C3_Witness ==
  \E r \in Guards :
    /\ hist[r].src = 0
    /\ Cardinality({g \in Guards : Born(g) /\ Root(g) = r}) >= 3
    /\ \A g \in Guards : (Born(g) /\ Root(g) = r) => Destroyed(g)
    /\ LineageCalls(r) = 1

\* C4: for a guard b declared while guard a was alive in the same or an
\* enclosing scope: b is destroyed before a, b's callback runs before a's,
\* and once b's scope has ended while a's is open, b's callback has run and
\* a's has not.
C4_ReverseOrder ==
  \A b \in Guards : \A a \in hist[b].outer :
    /\ Destroyed(a) => Destroyed(b)
    /\ (Fired(a) >= 1 /\ Fired(b) >= 1) => Pos(b) < Pos(a)
    /\ (Destroyed(b) /\ Live(a) /\ Holder(b)) => (Fired(b) = 1 /\ Fired(a) = 0)
    /\ (Destroyed(a) /\ Holder(a) /\ Holder(b)) => (Fired(a) = 1 /\ Fired(b) = 1)

\* A, B, C declared in that order have fired in the order C, B, A
C4_Witness ==
  /\ MaxGuards >= 3
  /\ hist[2].outer = {1} /\ hist[3].outer = {1, 2}
  /\ Len(log) = 3
  /\ log[1].g = 3 /\ log[2].g = 2 /\ log[3].g = 1

\* C5: while an exception unwinds the stack, and when it reaches its handler,
\* every guard destroyed on the way has invoked its callback exactly once if
\* it held an armed one (and not at all otherwise); no guard of the scopes
\* left is still alive when the handler runs.
C5_FiresDuringUnwinding ==
  /\ mode \in {"unwinding", "handler"} =>
       \A g \in finalized :
         Destroyed(g) /\ Fired(g) = (IF Holder(g) THEN 1 ELSE 0)
  /\ mode = "handler" =>
       \A g \in Guards : Live(g) => g \in OnStack(Len(stack))

\* two guards of the try block have fired by the time the handler runs
C5_Witness ==
  /\ mode = "handler"
  /\ \E g, h \in finalized :
       g # h /\ NeverRelocated(g) /\ NeverRelocated(h) /\ Fired(g) = 1 /\ Fired(h) = 1

\* C6: while a function returns a value, and when its caller receives it, the
\* result is the operand of the return statement, whatever callbacks have
\* run meanwhile; when the caller receives it every guard of the scopes left
\* that held an armed callback has invoked it exactly once.
C6_ReturnValueKept ==
  /\ (mode \in {"returning", "returned"} /\ given # 0) => result = given
  /\ mode = "returned" =>
       \A g \in finalized :
         Destroyed(g) /\ Fired(g) = (IF Holder(g) THEN 1 ELSE 0)

C6_Witness ==
  /\ mode = "returned"
  /\ result = 123
  /\ \E g \in finalized : NeverRelocated(g) /\ Fired(g) = 1 /\ count["count"] = 1

\* a guard is destroyed by the step
Dies(g) == Live(g) /\ guards'[g].life = "destroyed"

\* Fired after the step
FiredNext(g) == Cardinality({i \in DOMAIN log' : log'[i].g = g})

\* guard d is move-constructed by the step
RelocatedInto(d) ==
  guards[d].life = "unborn" /\ guards'[d].life = "live" /\ hist'[d].src # 0

\* C7: guards made by the factory and never relocated do not interfere: none
\* has fired while it is alive, each has fired exactly once when destroyed, a
\* counter incremented only by such guards' callables counts the destroyed
\* ones among them, and the destruction of one guard changes no other
\* guard's flag or invocation count and no counter its callable leaves alone.
C7_Independent ==
  /\ [](/\ \A g \in Guards : NeverRelocated(g) =>
              Fired(g) = (IF Live(g) THEN 0 ELSE 1)
        /\ \A c \in Counters :
             (\A g \in Touching(c) : NeverRelocated(g)) =>
               count[c] = Cardinality({g \in Touching(c) : Destroyed(g)}))
  /\ [][\A g \in Guards : Dies(g) =>
          /\ \A h \in Guards \ {g} :
               guards'[h] = guards[h] /\ FiredNext(h) = Fired(h)
          /\ \A c \in Counters \ Touches(guards[g].m_callback) :
               count'[c] = count[c]]_vars

\* of two guards of the scope being left, with different callables, the
\* later one has fired and the earlier one is untouched
C7_Witness ==
  /\ mode = "exiting"
  /\ \E g \in Range(Top.guards), h \in finalized :
       /\ NeverRelocated(g) /\ NeverRelocated(h)
       /\ guards[g].m_callback = "lambda" /\ guards[h].m_callback = "functor"
       /\ guards[g].m_active /\ Fired(g) = 0 /\ Fired(h) = 1
       /\ count["lambda_count"] = 0 /\ count["functor_count"] = 1

\* C8 as stated: when a callback throws in a destructor run by a normal
\* scope exit or by a return, with a handler enclosing the scope, the
\* exception propagates (the stack is unwound towards the handler).
C8_Propagates ==
  [][(/\ mode \in {"exiting", "returning"}
      /\ Len(log') = Len(log) + 1
      /\ mode' # mode
      /\ Innermost("try") # 0) => mode' = "unwinding"]_vars

\* C9 as stated: after any relocation exactly one of source and destination
\* is active.
C9_Original ==
  [][\A d \in Guards : RelocatedInto(d) =>
       guards'[d].m_active # guards'[hist'[d].src].m_active]_vars

\* C9 (amended): after any relocation the source is inactive and the
\* destination is active exactly if the source was active before it: one of
\* the two is active after relocating an active guard, none after relocating
\* a disarmed one.
C9_AtMostOneActive ==
  [][\A d \in Guards : RelocatedInto(d) =>
       /\ ~guards'[hist'[d].src].m_active
       /\ guards'[d].m_active = guards[hist'[d].src].m_active]_vars

\* a disarmed guard has been relocated: neither instance is active
C9_Witness ==
  \E d \in Guards :
    /\ Live(d) /\ hist[d].src # 0 /\ Live(hist[d].src)
    /\ ~hist[d].armed
    /\ ~guards[d].m_active /\ ~guards[hist[d].src].m_active

\* C10: a guard whose flag is false keeps it false through every step.
C10_DisarmedIsTerminal ==
  [][\A g \in Guards : (Born(g) /\ ~guards[g].m_active) =>
       ~guards'[g].m_active]_vars

\* a disarmed guard, relocated from a second time, is still disarmed
C10_Witness ==
  \E g \in Guards :
    /\ Live(g) /\ ~guards[g].m_active
    /\ Cardinality({d \in Guards : hist[d].src = g}) >= 2

\* a guard is built by the factory in the step
MadeByFactory(g) ==
  guards[g].life = "unborn" /\ guards'[g].life = "live" /\ hist'[g].src = 0

\* C11: redundant guards do not interfere: every counter reads the number of
\* destroyed guards that held an armed callable incrementing it (two guards
\* built from the same function count twice), so nothing is counted for a
\* guard still alive; counters change only in steps that destroy a guard,
\* and building a further guard changes none.
C11_Redundant ==
  /\ [](\A c \in Counters :
          count[c] = Cardinality({g \in Touching(c) : Destroyed(g) /\ Holder(g)}))
  /\ [][/\ (count' # count) => (\E g \in Guards : Dies(g))
        /\ (\E g \in Guards : MadeByFactory(g)) => count' = count]_vars

\* two guards built from the same closure have both fired, and a guard built
\* afterwards in the enclosing scope has changed nothing
C11_Witness ==
  \E g, h, k \in Guards :
    /\ g # h /\ NeverRelocated(g) /\ NeverRelocated(h) /\ NeverRelocated(k)
    /\ guards[g].m_callback = "lambda" /\ guards[h].m_callback = "lambda"
    /\ hist[h].outer = {g}
    /\ Destroyed(g) /\ Destroyed(h)
    /\ Live(k) /\ hist[k].outer = {}
    /\ count["count"] = 2 /\ count["lambda_count"] = 2 /\ count["functor_count"] = 0

\* the guards that have held the callable of the factory call that made r
Lineage(r) == {g \in Guards : Born(g) /\ Root(g) = r}

\* C12 as stated: a sink that an armed guard was relocated into goes out of
\* scope without the callback running.
C12_Original ==
  \A d \in Guards : (Holder(d) /\ hist[d].src # 0 /\ Destroyed(d)) => Fired(d) = 0

\* C12 (amended): relocation defers the callback and never cancels it: once
\* every guard that has held a relocated callable is gone, the sources have
\* invoked nothing and the callable has been invoked exactly once.
C12_RelocationDefers ==
  \A r \in Guards :
    (/\ Born(r) /\ hist[r].src = 0 /\ hist[r].movedOut
     /\ \A g \in Lineage(r) : Destroyed(g)) =>
      /\ LineageCalls(r) = 1
      /\ \A g \in Lineage(r) : hist[g].movedOut => Fired(g) = 0

\* source and sink are both gone and the callable has run, in the sink
C12_Witness ==
  \E r, d \in Guards :
    /\ hist[r].src = 0 /\ Lineage(r) = {r, d} /\ hist[d].src = r
    /\ Destroyed(r) /\ Destroyed(d)
    /\ Fired(r) = 0 /\ Fired(d) = 1 /\ LineageCalls(r) = 1

\* C14: a relocation invokes nothing and changes no counter, gives the
\* destination the callback and the flag the source had just before, clears
\* the source's flag, and leaves every other guard as it was.
C14_RelocationFrame ==
  [][\A d \in Guards : RelocatedInto(d) =>
       LET s == hist'[d].src
       IN  /\ log' = log
           /\ count' = count
           /\ guards'[d].m_callback = guards[s].m_callback
           /\ guards'[d].m_active = guards[s].m_active
           /\ guards'[s].m_active = FALSE
           /\ guards'[s].life = guards[s].life
           /\ \A h \in Guards \ {s, d} : guards'[h] = guards[h]]_vars

\* an armed guard has just been relocated: nothing has run, the destination
\* holds its callback and flag, a third guard is untouched
C14_Witness ==
  \E s, d, h \in Guards :
    /\ s # h /\ d # h
    /\ Live(d) /\ hist[d].src = s /\ Live(s) /\ Live(h) /\ NeverRelocated(h)
    /\ guards[d].m_active /\ ~guards[s].m_active /\ guards[h].m_active
    /\ guards[d].m_callback = guards[s].m_callback
    /\ log = << >>

\* C15: the destruction of a guard whose flag is false invokes nothing:
\* the log, the counters, every other guard and the course of control are
\* as before.
C15_InactiveNoOp ==
  [][\A g \in Guards : (Dies(g) /\ ~guards[g].m_active) =>
       /\ log' = log
       /\ count' = count
       /\ mode' = mode
       /\ \A h \in Guards \ {g} : guards'[h] = guards[h]]_vars

\* a moved-from guard has been destroyed after its destination: the count
\* stays at the destination's one invocation
C15_Witness ==
  \E g, d \in Guards :
    /\ hist[d].src = g /\ Destroyed(d) /\ Fired(d) = 1
    /\ Destroyed(g) /\ g \in finalized /\ ~guards[g].m_active /\ Fired(g) = 0
    /\ Len(log) = 1 /\ count["count"] = 1

\* the lineage of r is a chain: every relocation in it took the instance
\* that held the flag, so every member was armed when it was born
Chain(r) ==
  /\ Born(r) /\ hist[r].src = 0
  /\ \A g \in Lineage(r) : hist[g].armed

\* C16: for a factory-made guard relocated along a chain g1 -> ... -> gk,
\* each step taking the instance that holds the flag, once all k instances
\* are destroyed the callback has run exactly once, at the destruction of
\* gk (the one instance never relocated away) and at no other's; and an
\* invocation is only ever recorded for a guard in the step that destroys it
\* while its flag is set.
C16_ChainFiresAtEnd ==
  /\ [](\A r \in Guards :
          (Chain(r) /\ \A g \in Lineage(r) : Destroyed(g)) =>
            /\ LineageCalls(r) = 1
            /\ Cardinality({g \in Lineage(r) : ~hist[g].movedOut}) = 1
            /\ \A g \in Lineage(r) :
                 Fired(g) = IF hist[g].movedOut THEN 0 ELSE 1)
  /\ [][\A g \in Guards :
          FiredNext(g) # Fired(g) =>
            /\ Dies(g) /\ guards[g].m_active
            /\ FiredNext(g) = Fired(g) + 1]_vars

\* a chain of three, all destroyed: the one invocation is the last one's
C16_Witness ==
  \E g1, g2, g3 \in Guards :
    /\ hist[g1].src = 0 /\ hist[g2].src = g1 /\ hist[g3].src = g2
    /\ Chain(g1) /\ Lineage(g1) = {g1, g2, g3}
    /\ Destroyed(g1) /\ Destroyed(g2) /\ Destroyed(g3)
    /\ Len(log) = 1 /\ log[1].g = g3

\* the guard that received the first relocation out of s
FirstRecipient(s) ==
  CHOOSE e \in Guards :
    /\ Born(e) /\ hist[e].src = s
    /\ \A f \in Guards : (Born(f) /\ hist[f].src = s) => e <= f

C18_Conservation ==
  \A r \in Guards :
    (Born(r) /\ hist[r].src = 0) =>
      Cardinality({g \in Lineage(r) : Live(g) /\ guards[g].m_active})
        + LineageCalls(r) = 1

\* both sides of the balance occur at once: one lineage, relocated, has
\* spent its invocation and another still holds its flag in a relocated
\* instance whose source is already destroyed
C18_Witness ==
  \E r, d, q \in Guards :
    /\ hist[r].src = 0 /\ hist[d].src = r /\ hist[q].src = 0 /\ q # r
    /\ Destroyed(r) /\ Live(d) /\ guards[d].m_active /\ LineageCalls(r) = 0
    /\ Destroyed(q) /\ LineageCalls(q) = 1

\* C13: the callable a guard invokes at its destruction is the one its
\* factory call was handed, whatever has become of the caller's own object
\* since.
C13_OwnsCallable ==
  \A i \in DOMAIN log : log[i].cb = hist[log[i].root].made

\* C19: the callback of a guard shared by two threads is invoked more than
\* once only if a thread began its relocation or its destructor call while
\* the other was between its read of the flag and its clearing of the flag
\* (or its call): operations that do not interleave keep at-most-once.
C19_TwiceOnlyIfInterleaved ==
  LineageCalls(Shared) > 1 => race.interleaved

\* such an interleaving exists: both threads read the flag set, and the
\* callback has run twice
C19_Witness ==
  /\ race.interleaved
  /\ LineageCalls(Shared) = 2
  /\ \A t \in Threads : race.pc[t] = "done"

====
